---- MODULE Spec2Model ----
(***************************************************************************)
(* The image -> OCR -> explanation pipeline of educational-mode: the six   *)
(* request handlers (api/pipeline.js, netlify/functions/pipeline.js, the   *)
(* handler of part_001 and the three handlers of part_000) and the local   *)
(* arithmetic evaluator tryEvaluate.                                       *)
(*                                                                         *)
(* JavaScript strings are TLA+ strings; a character is a string of length  *)
(* one.  JavaScript numbers are exact rationals n/d with a sign bit (for   *)
(* -0), plus the values Infinity, -Infinity and NaN; IEEE rounding of the  *)
(* finite values is not modelled.                                          *)
(***************************************************************************)
EXTENDS Integers, Sequences, FiniteSets, TLC

VARIABLES
    variant,    \* which handler serves the request
    env,        \* process.env: which credentials are configured
    req,        \* the inbound request: method and body
    pc,         \* the handler's position: start, ocr1, ocr2, explain, done
    calls,      \* upstream calls issued so far, in order
    replies,    \* replies[i] is what calls[i] returned
    ocrText,    \* the handler's transcript variable (text / ocrText / rawText)
    numeric,    \* the handler's numeric variable
    response,   \* the response: status and JSON body
    expr,       \* tryEvaluate's argument (evaluator specification)
    result      \* tryEvaluate's return value (evaluator specification)

vars == <<variant, env, req, pc, calls, replies, ocrText, numeric, response, expr, result>>

(***************************************************************************)
(* Strings.                                                                *)
(***************************************************************************)
Ch(s, p) == IF p >= 1 /\ p <= Len(s) THEN SubSeq(s, p, p) ELSE ""

Digits == {"0", "1", "2", "3", "4", "5", "6", "7", "8", "9"}

DigitVal(c) ==
    CASE c = "0" -> 0 [] c = "1" -> 1 [] c = "2" -> 2 [] c = "3" -> 3 [] c = "4" -> 4
      [] c = "5" -> 5 [] c = "6" -> 6 [] c = "7" -> 7 [] c = "8" -> 8 [] c = "9" -> 9

\* \s of a JavaScript regular expression, and what String.prototype.trim removes
WhiteSpace == {" ", "\n", "\t", "\r"}

Min(a, b) == IF a < b THEN a ELSE b

\* s.slice(0, n)
Slice(s, n) == SubSeq(s, 1, Min(Len(s), n))

\* s.startsWith(prefix)
StartsWith(s, prefix) == Len(s) >= Len(prefix) /\ SubSeq(s, 1, Len(prefix)) = prefix

\* whether pat occurs in s at position p
MatchAt(s, p, pat) == p + Len(pat) - 1 <= Len(s) /\ SubSeq(s, p, p + Len(pat) - 1) = pat

\* s.includes(pat)
Includes(s, pat) == \E p \in 1..(Len(s) + 1) : MatchAt(s, p, pat)

\* the first position >= p where pat occurs in s, 0 when there is none (indexOf)
RECURSIVE IndexFrom(_, _, _)
IndexFrom(s, p, pat) ==
    IF p + Len(pat) - 1 > Len(s) THEN 0
    ELSE IF MatchAt(s, p, pat) THEN p
    ELSE IndexFrom(s, p + 1, pat)

RECURSIVE TrimStart(_)
TrimStart(s) == IF s # "" /\ Ch(s, 1) \in WhiteSpace THEN TrimStart(SubSeq(s, 2, Len(s))) ELSE s

RECURSIVE TrimEnd(_)
TrimEnd(s) ==
    IF s # "" /\ Ch(s, Len(s)) \in WhiteSpace THEN TrimEnd(SubSeq(s, 1, Len(s) - 1)) ELSE s

\* String.prototype.trim
Trim(s) == TrimEnd(TrimStart(s))

UpperCase == <<"A","B","C","D","E","F","G","H","I","J","K","L","M",
               "N","O","P","Q","R","S","T","U","V","W","X","Y","Z">>
LowerCase == <<"a","b","c","d","e","f","g","h","i","j","k","l","m",
               "n","o","p","q","r","s","t","u","v","w","x","y","z">>

LowerChar(c) ==
    IF \E i \in 1..26 : UpperCase[i] = c
    THEN LowerCase[CHOOSE i \in 1..26 : UpperCase[i] = c]
    ELSE c

\* String.prototype.toLowerCase
RECURSIVE ToLowerCase(_)
ToLowerCase(s) == IF s = "" THEN "" ELSE LowerChar(Ch(s, 1)) \o ToLowerCase(SubSeq(s, 2, Len(s)))

\* the decimal numeral of a natural number (a status in an error message)
RECURSIVE NatToString(_)
NatToString(n) ==
    LET d == CHOOSE c \in Digits : DigitVal(c) = n % 10
    IN IF n < 10 THEN d ELSE NatToString(n \div 10) \o d

(***************************************************************************)
(* JavaScript values of the evaluator.  k is the kind:                     *)
(*   num   a finite number n/d (d > 0, lowest terms), neg its sign bit     *)
(*   irr   a finite number whose exact value is not tracked (x ** y with a *)
(*         fractional y), neg its sign bit                                 *)
(*   inf   Infinity or -Infinity        nan   NaN                          *)
(*   obj   a RegExp object              str   a string (from obj + x)      *)
(*   err   evaluation threw (SyntaxError, TypeError)                       *)
(*   null  JavaScript null                                                 *)
(***************************************************************************)
Val(k, n, d, neg) == [k |-> k, n |-> n, d |-> d, neg |-> neg]

NaN    == Val("nan", 0, 1, FALSE)
Inf(neg) == Val("inf", 0, 1, neg)
Irr(neg) == Val("irr", 0, 1, neg)
Obj    == Val("obj", 0, 1, FALSE)
Str    == Val("str", 0, 1, FALSE)
Err    == Val("err", 0, 1, FALSE)
NULL   == Val("null", 0, 1, FALSE)

Abs(n) == IF n < 0 THEN -n ELSE n

RECURSIVE GCD(_, _)
GCD(a, b) == IF b = 0 THEN a ELSE GCD(b, a % b)

\* the finite number n/d (d # 0) in lowest terms; zneg is the sign bit of a zero
Reduced(n, d, g, zneg) ==
    IF n = 0 THEN Val("num", 0, 1, zneg) ELSE Val("num", n \div g, d \div g, n < 0)

Num(n, d, zneg) ==
    IF d < 0 THEN Reduced(-n, -d, GCD(Abs(n), Abs(d)), zneg)
    ELSE Reduced(n, d, GCD(Abs(n), Abs(d)), zneg)

\* ToNumber: a RegExp and every string built from one convert to NaN
ToNumber(v) == IF v.k \in {"obj", "str"} THEN NaN ELSE v

IsZero(v) == v.k = "num" /\ v.n = 0
IsFinite(v) == v.k \in {"num", "irr"}

\* unary -
Neg(v) ==
    CASE v.k \in {"nan", "obj", "str"} -> NaN
      [] v.k = "num" -> Val("num", -v.n, v.d, ~v.neg)
      [] OTHER -> Val(v.k, 0, 1, ~v.neg)

\* Number::add
NumAdd(x, y) ==
    CASE x.k = "nan" \/ y.k = "nan" -> NaN
      [] x.k = "inf" /\ y.k = "inf" -> IF x.neg = y.neg THEN x ELSE NaN
      [] x.k = "inf" -> x
      [] y.k = "inf" -> y
      [] x.k = "irr" \/ y.k = "irr" ->
            IF IsZero(y) THEN x ELSE IF IsZero(x) THEN y
            ELSE Irr(IF x.k = "irr" THEN x.neg ELSE y.neg)
      [] OTHER -> Num(x.n * y.d + y.n * x.d, x.d * y.d, x.neg /\ y.neg)

\* Number::multiply
NumMul(x, y) ==
    CASE x.k = "nan" \/ y.k = "nan" -> NaN
      [] x.k = "inf" \/ y.k = "inf" ->
            IF IsZero(x) \/ IsZero(y) THEN NaN ELSE Inf(x.neg # y.neg)
      [] x.k = "irr" \/ y.k = "irr" ->
            IF IsZero(x) \/ IsZero(y) THEN Num(0, 1, x.neg # y.neg)
            ELSE Irr(x.neg # y.neg)
      [] OTHER -> Num(x.n * y.n, x.d * y.d, x.neg # y.neg)

\* Number::divide
NumDiv(x, y) ==
    CASE x.k = "nan" \/ y.k = "nan" -> NaN
      [] x.k = "inf" -> IF y.k = "inf" THEN NaN ELSE Inf(x.neg # y.neg)
      [] y.k = "inf" -> Num(0, 1, x.neg # y.neg)
      [] IsZero(y) -> IF IsZero(x) THEN NaN ELSE Inf(x.neg # y.neg)
      [] x.k = "irr" \/ y.k = "irr" ->
            IF IsZero(x) THEN Num(0, 1, x.neg # y.neg) ELSE Irr(x.neg # y.neg)
      [] OTHER -> Num(x.n * y.d, x.d * y.n, x.neg # y.neg)

RECURSIVE IPow(_, _)
IPow(b, e) == IF e = 0 THEN 1 ELSE b * IPow(b, e - 1)

IsInteger(v) == v.k = "num" /\ v.d = 1
IsOddInteger(v) == IsInteger(v) /\ v.n % 2 = 1
\* |x| compared with 1, for a finite x: -1, 0 or 1
CmpAbsOne(x) ==
    IF x.k = "irr" THEN 1
    ELSE IF Abs(x.n) > x.d THEN 1 ELSE IF Abs(x.n) = x.d THEN 0 ELSE -1

\* Number::exponentiate
NumPow(x, y) ==
    CASE y.k = "nan" -> NaN
      [] IsZero(y) -> Num(1, 1, FALSE)
      [] x.k = "nan" -> NaN
      [] x.k = "inf" ->
            IF ~y.neg THEN Inf(x.neg /\ IsOddInteger(y))
            ELSE Num(0, 1, x.neg /\ IsOddInteger(y))
      [] IsZero(x) ->
            IF ~y.neg THEN Num(0, 1, x.neg /\ IsOddInteger(y))
            ELSE Inf(x.neg /\ IsOddInteger(y))
      [] y.k = "inf" ->
            IF CmpAbsOne(x) = 0 THEN NaN
            ELSE IF (CmpAbsOne(x) = 1) = (~y.neg) THEN Inf(FALSE)
            ELSE Num(0, 1, FALSE)
      [] x.neg /\ ~IsInteger(y) -> NaN
      [] x.k = "irr" \/ y.k = "irr" -> Irr(x.neg /\ IsOddInteger(y))
      [] IsInteger(y) ->
            IF y.n > 0 THEN Num(IPow(x.n, y.n), IPow(x.d, y.n), FALSE)
            ELSE Num(IPow(x.d, -y.n), IPow(x.n, -y.n), FALSE)
      [] OTHER -> IF x.n = x.d THEN x ELSE Irr(FALSE)

\* the binary operators; op is "+", "-", "*", "/" or "**"
BinOp(op, a, b) ==
    CASE op = "+" -> IF a.k \in {"obj", "str"} \/ b.k \in {"obj", "str"} THEN Str
                     ELSE NumAdd(a, b)
      [] op = "-" -> NumAdd(ToNumber(a), Neg(b))
      [] op = "*" -> NumMul(ToNumber(a), ToNumber(b))
      [] op = "/" -> NumDiv(ToNumber(a), ToNumber(b))
      [] op = "**" -> NumPow(ToNumber(a), ToNumber(b))

(***************************************************************************)
(* The evaluator: Function('"use strict";return(' + clean + ')')().        *)
(* clean holds only the characters 0-9 + - * / ( ) . so the source text is *)
(* an ECMAScript expression over decimal literals, regular expression      *)
(* literals, comments and the punctuators + - * / ** ++ -- ( ) .           *)
(* A parse result is [v |-> value, p |-> position after it]; v.k = "err"   *)
(* when the text does not parse or its evaluation throws.                  *)
(***************************************************************************)
PR(v, p) == [v |-> v, p |-> p]

\* the position after the comments that start at p; 0 for an unterminated /* comment.
\* A // comment runs to the end of the source text, which holds no line break.
RECURSIVE SkipComments(_, _)
SkipComments(s, p) ==
    IF MatchAt(s, p, "//") THEN Len(s) + 1
    ELSE IF MatchAt(s, p, "/*")
         THEN LET q == IndexFrom(s, p + 2, "*/")
              IN IF q = 0 THEN 0 ELSE SkipComments(s, q + 2)
    ELSE p

\* the position after the run of decimal digits that starts at p
RECURSIVE DigitsEnd(_, _)
DigitsEnd(s, p) == IF Ch(s, p) \in Digits THEN DigitsEnd(s, p + 1) ELSE p

\* the value of the decimal digits s[p..q-1]
RECURSIVE DigitsValue(_, _, _)
DigitsValue(s, p, q) ==
    IF q <= p THEN 0 ELSE DigitsValue(s, p, q - 1) * 10 + DigitVal(Ch(s, q - 1))

\* the literal s[p..e2-1] whose integer part ends before e1; scale is 10 to the
\* number of fraction digits
NumberValue(s, p, e1, e2, scale) ==
    PR(Num(DigitsValue(s, p, e1) * scale + DigitsValue(s, e1 + 1, e2), scale, FALSE), e2)

\* DecimalLiteral at p whose integer digits end before e1 and whose fraction, if
\* any, ends before e2.  Strict mode code: an integer part of several digits that
\* starts with 0 is a SyntaxError.
ScanNumberTo(s, p, e1, e2) ==
    IF e2 - p < 1 \/ (e2 - p = 1 /\ Ch(s, p) = ".") THEN PR(Err, p)   \* a lone "."
    ELSE IF e1 - p > 1 /\ Ch(s, p) = "0" THEN PR(Err, p)              \* 01, 00, 08
    ELSE NumberValue(s, p, e1, e2, IPow(10, IF e2 > e1 THEN e2 - e1 - 1 ELSE 0))

ScanFraction(s, p, e1) ==
    ScanNumberTo(s, p, e1, IF Ch(s, e1) = "." THEN DigitsEnd(s, e1 + 1) ELSE e1)

\* DecimalLiteral at p (Ch(s, p) is a digit or a dot)
ScanNumber(s, p) == ScanFraction(s, p, DigitsEnd(s, p))

\* whether s[p..q-1] is a valid regular expression pattern: parentheses balance
\* and every quantifier * + follows an atom
RECURSIVE PatternOk(_, _, _, _, _)
PatternOk(s, p, q, depth, atom) ==
    LET c == Ch(s, p)
    IN IF p >= q THEN depth = 0
       ELSE IF c = "(" THEN PatternOk(s, p + 1, q, depth + 1, FALSE)
       ELSE IF c = ")" THEN depth > 0 /\ PatternOk(s, p + 1, q, depth - 1, TRUE)
       ELSE IF c \in {"*", "+"} THEN atom /\ PatternOk(s, p + 1, q, depth, FALSE)
       ELSE PatternOk(s, p + 1, q, depth, TRUE)

\* RegularExpressionLiteral at p whose body ends at the "/" at q (0: there is none);
\* digits after it are invalid flags
ScanRegExpTo(s, p, q) ==
    IF q = 0 THEN PR(Err, p)
    ELSE IF ~PatternOk(s, p + 1, q, 0, FALSE) THEN PR(Err, p)
    ELSE IF Ch(s, q + 1) \in Digits THEN PR(Err, p)
    ELSE PR(Obj, q + 1)

\* RegularExpressionLiteral at p (Ch(s, p) = "/", not the start of a comment):
\* the body runs to the next "/"
ScanRegExp(s, p) == ScanRegExpTo(s, p, IndexFrom(s, p + 1, "/"))

\* a parenthesised expression that started at p: e is the expression inside and
\* q the position after it and the comments that follow
CloseParen(s, p, e, q) ==
    IF e.v.k = "err" \/ q = 0 \/ Ch(s, q) # ")" THEN PR(Err, p) ELSE PR(e.v, q + 1)

\* LeftHandSideExpression and UpdateExpression: the primary expression e followed
\* at q by "(" is a call of a non-function (TypeError), by "." or a literal a
\* SyntaxError, by ++ or -- an update of a non-reference (SyntaxError)
Postfix(s, p, e, q) ==
    IF e.v.k = "err" \/ q = 0 THEN PR(Err, p)
    ELSE IF Ch(s, q) \in Digits \union {".", "("} THEN PR(Err, q)
    ELSE IF MatchAt(s, q, "++") \/ MatchAt(s, q, "--") THEN PR(Err, q)
    ELSE PR(e.v, q)

\* the unary operator c applied to the parsed operand u
ApplyUnary(c, u) ==
    IF u.v.k = "err" THEN u ELSE PR(IF c = "-" THEN Neg(u.v) ELSE ToNumber(u.v), u.p)

\* the binary operator op applied to left and the parsed right operand r
ApplyBinary(op, left, r) ==
    IF r.v.k = "err" THEN r ELSE PR(BinOp(op, left, r.v), r.p)

\* The expression grammar, as one recursive operator: Parse(k, s, p, left) parses
\* the nonterminal k of s at p (after any comments); left is the parse of the left
\* operand, for the kinds that continue one.
\*   primary         a literal or a parenthesised expression
\*   unary           + and - convert their operand to a number; ++ and -- are
\*                   updates of a non-reference (SyntaxError)
\*   exponentiation  right associative; a unary expression is not allowed as the
\*                   base of ** (SyntaxError)
\*   multiplicative, additive   left associative
RECURSIVE Parse(_, _, _, _)
Parse(k, s, p, left) ==
    CASE p = 0 \/ left.v.k = "err" -> PR(Err, 0)
      [] k = "primary" ->
            IF Ch(s, p) \in Digits \union {"."} THEN ScanNumber(s, p)
            ELSE IF Ch(s, p) = "/" THEN ScanRegExp(s, p)
            ELSE IF Ch(s, p) = "(" THEN Parse("closeParen", s, p, Parse("additive", s, SkipComments(s, p + 1), left))
            ELSE PR(Err, p)
      [] k = "closeParen" -> CloseParen(s, p, left, SkipComments(s, left.p))
      [] k = "postfix" -> Parse("postfixRest", s, p, Parse("primary", s, p, left))
      [] k = "postfixRest" -> Postfix(s, p, left, SkipComments(s, left.p))
      [] k = "unary" ->
            IF Ch(s, p) \notin {"+", "-"} THEN Parse("postfix", s, p, left)
            ELSE IF Ch(s, p + 1) = Ch(s, p) THEN PR(Err, p)
            ELSE ApplyUnary(Ch(s, p), Parse("unary", s, SkipComments(s, p + 1), left))
      [] k = "exponentiation" -> Parse("exponentiationRest", s, p, Parse("unary", s, p, left))
      [] k = "exponentiationRest" ->
            IF ~MatchAt(s, SkipComments(s, left.p), "**") THEN PR(left.v, SkipComments(s, left.p))
            ELSE IF Ch(s, p) \in {"+", "-"} THEN PR(Err, p)
            ELSE ApplyBinary("**", left.v,
                     Parse("exponentiation", s, SkipComments(s, SkipComments(s, left.p) + 2), left))
      [] k = "multiplicative" ->
            Parse("multiplicativeRest", s, p, Parse("exponentiation", s, p, left))
      [] k = "multiplicativeRest" ->
            IF Ch(s, SkipComments(s, left.p)) \in {"*", "/"}
            THEN Parse("multiplicativeRest", s, p,
                     ApplyBinary(Ch(s, SkipComments(s, left.p)), left.v,
                         Parse("exponentiation", s,
                               SkipComments(s, SkipComments(s, left.p) + 1), left)))
            ELSE PR(left.v, SkipComments(s, left.p))
      [] k = "additive" -> Parse("additiveRest", s, p, Parse("multiplicative", s, p, left))
      [] k = "additiveRest" ->
            IF Ch(s, SkipComments(s, left.p)) \notin {"+", "-"} THEN PR(left.v, SkipComments(s, left.p))
            ELSE IF Ch(s, SkipComments(s, left.p) + 1) = Ch(s, SkipComments(s, left.p))
                 THEN PR(Err, p)
            ELSE Parse("additiveRest", s, p,
                     ApplyBinary(Ch(s, SkipComments(s, left.p)), left.v,
                         Parse("multiplicative", s,
                               SkipComments(s, SkipComments(s, left.p) + 1), left)))

\* nothing parsed yet
Nothing == PR(NULL, 1)

\* the source text src parsed as e: the value, or Err when text is left over
WholeBody(src, e) ==
    IF e.v.k = "err" \/ SkipComments(src, e.p) # Len(src) + 1 THEN Err ELSE e.v

\* the body "return" src, compiled and called
RunBody(src) == WholeBody(src, Parse("additive", src, SkipComments(src, 1), Nothing))

\* Function('"use strict";return(' + clean + ')')(): the value returned, or Err
\* when the text is no function body or the call throws
EvalFunction(clean) == RunBody("(" \o clean \o ")")

\* the characters the evaluator keeps: /[^0-9+\-*/().\s]/g removes the others
KeptChars == Digits \union {"+", "-", "*", "/", "(", ")", "."}

\* expr.replace(/[^0-9+\-*/().\s]/g, "").replace(/\s+/g, "")
RECURSIVE Clean(_)
Clean(s) ==
    IF s = "" THEN ""
    ELSE (IF Ch(s, 1) \in KeptChars THEN Ch(s, 1) ELSE "") \o Clean(SubSeq(s, 2, Len(s)))

\* a JavaScript value that may be passed as expr: a string, null or undefined
JsString(s) == [t |-> "string", s |-> s]
JsNull == [t |-> "null", s |-> ""]
JsUndefined == [t |-> "undefined", s |-> ""]

\* expr || ""
OrEmpty(x) == IF x.t = "string" THEN x.s ELSE ""

\* typeof val === "number" && Number.isFinite(val)
IsFiniteNumber(val) == val.k \in {"num", "irr", "inf", "nan"} /\ IsFinite(val)

\* the body of tryEvaluate up to the value of val: NULL for the early return of
\* an empty clean, Err when Function throws
EvalClean(clean) == IF clean = "" THEN NULL ELSE EvalFunction(clean)

\* tryEvaluate ending without its test of val: whatever Function returned
FiniteOrNull_anyValue(val) == IF val.k \in {"null", "err"} THEN NULL ELSE val

\* the end of tryEvaluate in api/pipeline.js and part_001
FiniteOrNull(val) ==
    IF val.k \in {"null", "err"} THEN NULL ELSE IF IsFiniteNumber(val) THEN val ELSE NULL

\* the end of tryEvaluate in part_000 without its test of val
FiniteOrNull_part000_anyValue(val) == IF val.k \in {"null", "err"} THEN NULL ELSE val

\* the end of tryEvaluate in part_000: Number.isFinite(val) alone, false of a non-number
FiniteOrNull_part000(val) ==
    IF val.k \in {"null", "err"} THEN NULL ELSE IF IsFinite(val) THEN val ELSE NULL

\* tryEvaluate of api/pipeline.js and part_001
tryEvaluate(x) == FiniteOrNull(EvalClean(Clean(OrEmpty(x))))

\* tryEvaluate of part_000
tryEvaluate_part000(x) == FiniteOrNull_part000(EvalClean(Clean(OrEmpty(x))))

(***************************************************************************)
(* Text helpers of the handlers.                                           *)
(***************************************************************************)
\* the position after the run of c that starts at p
RECURSIVE RunEnd(_, _, _)
RunEnd(s, p, c) == IF Ch(s, p) = c THEN RunEnd(s, p + 1, c) ELSE p

\* s.replace(/\*{2,}/g, "")
RECURSIVE RemoveStarRuns(_)
RemoveStarRuns(s) ==
    LET e == RunEnd(s, 1, "*")
    IN IF s = "" THEN ""
       ELSE IF e > 2 THEN RemoveStarRuns(SubSeq(s, e, Len(s)))
       ELSE IF e = 2 THEN "*" \o RemoveStarRuns(SubSeq(s, 2, Len(s)))
       ELSE Ch(s, 1) \o RemoveStarRuns(SubSeq(s, 2, Len(s)))

\* the backtick; a code fence is three of them
Backtick == SubSeq("`'", 1, 1)
Fence == Backtick \o Backtick \o Backtick

\* the fence replacement of cleanOCR: each fenced block is replaced by its inside
RECURSIVE StripFences(_)
StripFences(s) ==
    LET i == IndexFrom(s, 1, Fence)
        j == IF i = 0 THEN 0 ELSE IndexFrom(s, i + 3, Fence)
    IN IF j = 0 THEN s
       ELSE SubSeq(s, 1, i - 1) \o SubSeq(s, i + 3, j - 1)
            \o StripFences(SubSeq(s, j + 3, Len(s)))

\* the position after a match of /!\[[^\]]*]\([^)]+\)/ that starts at p, 0 for none
ImageEnd(s, p) ==
    LET j == IF MatchAt(s, p, "![") THEN IndexFrom(s, p + 2, "]") ELSE 0
        k == IF j # 0 /\ Ch(s, j + 1) = "(" THEN IndexFrom(s, j + 2, ")") ELSE 0
    IN IF k > j + 2 THEN k + 1 ELSE 0

\* s.replace(/!\[[^\]]*]\([^)]+\)/g, "")
RECURSIVE StripImages(_)
StripImages(s) ==
    IF s = "" THEN ""
    ELSE IF ImageEnd(s, 1) # 0 THEN StripImages(SubSeq(s, ImageEnd(s, 1), Len(s)))
    ELSE Ch(s, 1) \o StripImages(SubSeq(s, 2, Len(s)))

\* cleanOCR of netlify/functions/pipeline.js and of the last handler of part_000
cleanOCR(s) == Trim(StripImages(StripFences(RemoveStarRuns(s))))

\* cleanOCR of the Groq-primary handler of part_000: fences first
cleanOCR_groqPrimary(s) == Trim(StripImages(RemoveStarRuns(StripFences(s))))

\* text.split(/\n{2,}/)
RECURSIVE SplitBlocks(_)
SplitBlocks(s) ==
    LET i == IndexFrom(s, 1, "\n\n")
    IN IF i = 0 THEN <<s>>
       ELSE <<SubSeq(s, 1, i - 1)>> \o SplitBlocks(SubSeq(s, RunEnd(s, i, "\n"), Len(s)))

\* p.replace(/\n/g, "<br>")
RECURSIVE BreakLines(_)
BreakLines(s) ==
    IF s = "" THEN ""
    ELSE (IF Ch(s, 1) = "\n" THEN "<br>" ELSE Ch(s, 1)) \o BreakLines(SubSeq(s, 2, Len(s)))

\* the non-empty trimmed blocks, each wrapped in <p>...</p>, joined by line breaks
RECURSIVE JoinParagraphs(_)
JoinParagraphs(blocks) ==
    IF blocks = <<>> THEN ""
    ELSE LET b    == Trim(Head(blocks))
             rest == JoinParagraphs(Tail(blocks))
         IN IF b = "" THEN rest
            ELSE "<p>" \o BreakLines(b) \o "</p>" \o (IF rest = "" THEN "" ELSE "\n" \o rest)

\* toFriendlyStepsHtml of netlify/functions/pipeline.js, toHtmlParagraphs of part_000
toFriendlyStepsHtml(text) == JoinParagraphs(SplitBlocks(text))

QuoteChars == {"\"", "'", Backtick}

RECURSIVE StripQuotesStart(_)
StripQuotesStart(s) ==
    IF s # "" /\ Ch(s, 1) \in QuoteChars THEN StripQuotesStart(SubSeq(s, 2, Len(s))) ELSE s

RECURSIVE StripQuotesEnd(_)
StripQuotesEnd(s) ==
    IF s # "" /\ Ch(s, Len(s)) \in QuoteChars THEN StripQuotesEnd(SubSeq(s, 1, Len(s) - 1))
    ELSE s

\* s.replace(/^\s*Understood!.*$/i, ""): the whole text, when it is one line
\* that starts with the preface
StripPreface(s) ==
    LET t == TrimStart(s)
    IN IF StartsWith(ToLowerCase(t), "understood!")
          /\ ~Includes(t, "\n") /\ ~Includes(t, "\r")
       THEN "" ELSE s

\* the final cleaning of ocrWithQwen
finalCleaning(text) == Trim(StripPreface(StripQuotesEnd(StripQuotesStart(text))))

\* isNoImageReply of part_001
isNoImageReply(s) ==
    LET t == ToLowerCase(s)
    IN \/ s = ""
       \/ Includes(t, "provide the image")
       \/ Includes(t, "no image")
       \/ Includes(t, "cannot see")
       \/ Trim(t) = ""

\* the test of attempt A without its patterns
looksLikeNoImage_emptyOnly(text) == text = ""

\* /provide the image|no image|can't see|cannot see/i.test(ocrText) || !ocrText
looksLikeNoImage(text) ==
    LET t == ToLowerCase(text)
    IN \/ Includes(t, "provide the image")
       \/ Includes(t, "no image")
       \/ Includes(t, "can't see")
       \/ Includes(t, "cannot see")
       \/ text = ""

\* the characters of /[0-9=+\-×*/()]/
MathChars == Digits \union {"=", "+", "-", "×", "*", "/", "(", ")"}

\* /[0-9=+\-×*/()]/.test(rawText)
hasMath(s) == \E p \in 1..Len(s) : Ch(s, p) \in MathChars

NoMathExplanation == "The image does not contain any mathematical expressions or steps."

(***************************************************************************)
(* Requests.  The value of imageDataUrl in the parsed body is a JavaScript *)
(* value of type t; a string is head followed by pad more base64           *)
(* characters "A", so that a payload of millions of characters has a       *)
(* finite description.                                                     *)
(***************************************************************************)
Img(t, n, head, pad) == [t |-> t, n |-> n, head |-> head, pad |-> pad]
ImgUndefined == Img("undefined", 0, "", 0)
ImgString(head, pad) == Img("string", 0, head, pad)

\* imageDataUrl.length
ImgLength(v) == Len(v.head) + v.pad

\* !!imageDataUrl
Truthy(v) ==
    CASE v.t \in {"undefined", "null"} -> FALSE
      [] v.t = "number" -> v.n # 0
      [] v.t = "string" -> ImgLength(v) > 0
      [] OTHER -> TRUE

\* imageDataUrl.startsWith(prefix), for a string; no prefix holds an "A"
ImgStartsWith(v, prefix) == StartsWith(v.head, prefix)

\* the size limit of part_001
MAX_IMAGE_LENGTH == 6000000

PngHead == "data:image/png;base64,iVBORw0KGgo"

ImageValues ==
    { ImgUndefined,
      Img("null", 0, "", 0),
      Img("number", 0, "", 0),
      Img("number", 5, "", 0),
      Img("array", 0, "", 0),
      ImgString("", 0),
      ImgString("data:text/plain,hello", 0),
      ImgString("http://example.com/a.png", 0),
      ImgString("data:image/", 0),
      ImgString(PngHead, 0),
      ImgString(PngHead, MAX_IMAGE_LENGTH - Len(PngHead)),
      ImgString(PngHead, MAX_IMAGE_LENGTH - Len(PngHead) + 1) }

\* a request body: absent, not JSON, the JSON null, or an object whose
\* imageDataUrl is image (ImgUndefined when the object has no such key)
Body(k, image) == [k |-> k, image |-> image]

Bodies ==
    { Body("absent", ImgUndefined), Body("malformed", ImgUndefined), Body("null", ImgUndefined) }
    \union { Body("object", v) : v \in ImageValues }

Variants == {"api", "netlify", "part_001", "part_000", "part_000_groq", "part_000_openrouter"}

\* api/pipeline.js and the first handler of part_000 receive a body that the
\* framework has parsed already: a body that is not JSON never reaches them
ParsedByFramework(v) == v \in {"api", "part_000"}

Requests(v) ==
    { [method |-> m, body |-> b] :
        m \in {"POST", "GET"},
        b \in IF ParsedByFramework(v) THEN Bodies \ {Body("malformed", ImgUndefined)} ELSE Bodies }

\* const { imageDataUrl } = req.body || {}
ImageOf(body) == IF body.k = "object" THEN body.image ELSE ImgUndefined

\* !imageDataUrl || typeof imageDataUrl !== "string" || !imageDataUrl.startsWith("data:image/")
invalidImage(v) == ~Truthy(v) \/ v.t # "string" \/ ~ImgStartsWith(v, "data:image/")

(***************************************************************************)
(* Upstream replies.  kind is                                              *)
(*   ok             an OK response whose JSON holds the string content text *)
(*   ok_nocontent   an OK response whose JSON holds no content              *)
(*   ok_badjson     an OK response whose body is not JSON                   *)
(*   http_error     a non-OK response with the given status and body text   *)
(*   network_error  fetch rejected                                          *)
(***************************************************************************)
Reply(kind, status, text) == [kind |-> kind, status |-> status, text |-> text]

OcrContents ==
    { "2+2", "1/0", " 3*0.5+3*(-1)\n", "01+1", "", "  ", "hello", "x = y", "(a)",
      "Please provide the image.", "There is NO IMAGE here", "I cannot see it",
      "I can't see it", "**", "\"7\"", "Understood! Here it is",
      Fence \o "1+1" \o Fence, "![pic](u)" }

ExplainContents == { "Step 1\n\nStep 2\nmore", "", "4" }

FailureReplies ==
    { Reply("ok_nocontent", 200, ""), Reply("ok_badjson", 200, ""),
      Reply("http_error", 401, "denied"), Reply("http_error", 500, ""),
      Reply("network_error", 0, "") }

OcrReplies == { Reply("ok", 200, c) : c \in OcrContents } \union FailureReplies
ExplainReplies == { Reply("ok", 200, c) : c \in ExplainContents } \union FailureReplies

\* an upstream call: stage is "ocr" or "explain", provider "openrouter" or "groq"
Call(stage, provider) == [stage |-> stage, provider |-> provider]

(***************************************************************************)
(* Handler steps.  A handler runs from one await of fetch to the next; a   *)
(* step is what it does in between, given the reply it was waiting for:    *)
(* it either responds (Respond) or issues the next upstream call (Fetch).  *)
(* text and num are the values of its transcript and numeric variables.    *)
(***************************************************************************)
NoResponse == [status |-> 0, body |-> <<>>]

Respond(status, body, text, num) ==
    [pc |-> "done", response |-> [status |-> status, body |-> body], call |-> <<>>,
     ocrText |-> text, numeric |-> num]

Fetch(nextpc, call, text, num) ==
    [pc |-> nextpc, response |-> NoResponse, call |-> <<call>>,
     ocrText |-> text, numeric |-> num]

\* what a helper that may throw produced: the Error's message, or the string returned
Thrown(msg) == [thrown |-> TRUE, s |-> msg]
Returned(text) == [thrown |-> FALSE, s |-> text]

JsonSyntaxError == "Unexpected token < in JSON at position 0"
FetchFailed == "fetch failed"

\* data?.choices?.[0]?.message?.content, "" when there is none
ContentOf(r) == IF r.kind = "ok" THEN r.text ELSE ""

\* content?.trim?.() || content || ""
TrimOrRaw(t) == IF Trim(t) # "" THEN Trim(t) ELSE t

(* ------------------------- api/pipeline.js ----------------------------- *)
PipelineException == [error |-> "pipeline_exception"]

api_start(rq, e) ==
    IF rq.method # "POST" THEN Respond(405, [error |-> "method_not_allowed"], "", NULL)
    ELSE IF invalidImage(ImageOf(rq.body))
         THEN Respond(400, [error |-> "invalid_image"], "", NULL)
    ELSE IF ~e.OPENROUTER_API_KEY
         THEN Respond(500, [error |-> "missing_openrouter_key"], "", NULL)
    ELSE Fetch("ocr1", Call("ocr", "openrouter"), "", NULL)

\* the same step without the test of ocrResp.ok
api_ocrReply_ignoreStatus(e, r) ==
    CASE r.kind = "network_error" -> Respond(500, PipelineException, "", NULL)
      [] r.kind = "ok_badjson" -> Respond(500, PipelineException, "", NULL)
      [] OTHER ->
            IF ~e.GROQ_API_KEY
            THEN Respond(500, [error |-> "missing_groq_key"], Trim(ContentOf(r)), NULL)
            ELSE Fetch("explain", Call("explain", "groq"), Trim(ContentOf(r)), NULL)

api_ocrReply(e, r) ==
    LET text == Trim(ContentOf(r))
        num  == tryEvaluate(JsString(text))
    IN CASE r.kind = "network_error" -> Respond(500, PipelineException, "", NULL)
         [] r.kind = "http_error" ->
                Respond(502, [error |-> "openrouter_failed", detail |-> Slice(r.text, 400)],
                        "", NULL)
         [] r.kind = "ok_badjson" -> Respond(500, PipelineException, "", NULL)
         [] OTHER ->
                IF ~e.GROQ_API_KEY
                THEN Respond(500, [error |-> "missing_groq_key"], text, num)
                ELSE Fetch("explain", Call("explain", "groq"), text, num)

api_explainReply(text, num, r) ==
    CASE r.kind = "network_error" -> Respond(500, PipelineException, text, num)
      [] r.kind = "http_error" ->
            Respond(502, [error |-> "groq_failed", detail |-> Slice(r.text, 400),
                          text |-> text, numeric |-> num], text, num)
      [] r.kind = "ok_badjson" -> Respond(500, PipelineException, text, num)
      [] OTHER ->
            Respond(200, [text |-> text, numeric |-> num, explanation |-> ContentOf(r)],
                    text, num)

(* ------------------------------ part_001 ------------------------------- *)
\* part_001 with >= in place of > in the size test
part001_start_atLimit(rq, e) ==
    IF rq.method # "POST" THEN Respond(405, [error |-> "method_not_allowed"], "", NULL)
    ELSE IF rq.body.k \in {"absent", "malformed"}
         THEN Respond(400, [error |-> "invalid_json"], "", NULL)
    ELSE IF invalidImage(ImageOf(rq.body))
         THEN Respond(400, [error |-> "invalid_image"], "", NULL)
    ELSE IF ImgLength(ImageOf(rq.body)) >= MAX_IMAGE_LENGTH
         THEN Respond(413, [error |-> "image_too_large"], "", NULL)
    ELSE IF ~e.OPENROUTER_API_KEY
         THEN Respond(500, [error |-> "missing_openrouter_key"], "", NULL)
    ELSE Fetch("ocr1", Call("ocr", "openrouter"), "", NULL)

part001_start(rq, e) ==
    LET image == ImageOf(rq.body)
    IN IF rq.method # "POST" THEN Respond(405, [error |-> "method_not_allowed"], "", NULL)
       ELSE IF rq.body.k \in {"absent", "malformed"}
            THEN Respond(400, [error |-> "invalid_json"], "", NULL)
       ELSE IF invalidImage(image) THEN Respond(400, [error |-> "invalid_image"], "", NULL)
       ELSE IF ImgLength(image) > MAX_IMAGE_LENGTH
            THEN Respond(413, [error |-> "image_too_large"], "", NULL)
       ELSE IF ~e.OPENROUTER_API_KEY
            THEN Respond(500, [error |-> "missing_openrouter_key"], "", NULL)
       ELSE Fetch("ocr1", Call("ocr", "openrouter"), "", NULL)

\* callOpenRouter: throws on a rejected fetch and on a non-OK response
callOpenRouter(r) ==
    CASE r.kind = "network_error" -> Thrown(FetchFailed)
      [] r.kind = "http_error" ->
            Thrown("OpenRouter OCR failed: " \o NatToString(r.status) \o " " \o Slice(r.text, 300))
      [] OTHER -> Returned(ContentOf(r))

\* the handler of part_001 from the return of ocrWithQwen to the explanation call
part001_afterOcr(e, text) ==
    LET cleaned == finalCleaning(text)
        num     == tryEvaluate(JsString(cleaned))
    IN IF ~e.GROQ_API_KEY THEN Respond(500, [error |-> "missing_groq_key"], cleaned, num)
       ELSE Fetch("explain", Call("explain", "groq"), cleaned, num)

\* ocrWithQwen after attempt A
part001_ocrReply1(e, r) ==
    LET t == callOpenRouter(r)
    IN IF t.thrown THEN Respond(500, PipelineException, "", NULL)
       ELSE IF isNoImageReply(t.s) THEN Fetch("ocr2", Call("ocr", "openrouter"), "", NULL)
       ELSE part001_afterOcr(e, t.s)

\* ocrWithQwen after attempt B
part001_ocrReply2(e, r) ==
    LET t == callOpenRouter(r)
    IN IF t.thrown THEN Respond(500, PipelineException, "", NULL)
       ELSE part001_afterOcr(e, t.s)

\* explainWithGroq without its test of resp.ok
part001_explainReply_ignoreStatus(text, num, r) ==
    IF r.kind = "network_error" THEN Respond(500, PipelineException, text, num)
    ELSE Respond(200, [text |-> text, numeric |-> num, explanation |-> ContentOf(r)], text, num)

\* explainWithGroq and the end of the handler
part001_explainReply(text, num, r) ==
    IF r.kind \in {"network_error", "http_error"} THEN Respond(500, PipelineException, text, num)
    ELSE Respond(200, [text |-> text, numeric |-> num, explanation |-> ContentOf(r)], text, num)

(* ---------------------- part_000, first handler ------------------------ *)
\* the same prologue without the test of GROQ_API_KEY
part000_start_oneKey(rq, e) ==
    IF rq.method # "POST" THEN Respond(405, [error |-> "method_not_allowed"], "", NULL)
    ELSE IF invalidImage(ImageOf(rq.body))
         THEN Respond(400, [error |-> "invalid_image"], "", NULL)
    ELSE IF ~e.OPENROUTER_API_KEY
         THEN Respond(500, [error |-> "missing_openrouter_key"], "", NULL)
    ELSE Fetch("ocr1", Call("ocr", "openrouter"), "", NULL)

part000_start(rq, e) ==
    IF rq.method # "POST" THEN Respond(405, [error |-> "method_not_allowed"], "", NULL)
    ELSE IF invalidImage(ImageOf(rq.body))
         THEN Respond(400, [error |-> "invalid_image"], "", NULL)
    ELSE IF ~e.OPENROUTER_API_KEY
         THEN Respond(500, [error |-> "missing_openrouter_key"], "", NULL)
    ELSE IF ~e.GROQ_API_KEY THEN Respond(500, [error |-> "missing_groq_key"], "", NULL)
    ELSE Fetch("ocr1", Call("ocr", "openrouter"), "", NULL)

\* attempt A returned
part000_ocrReply1(r) ==
    LET got  == TrimOrRaw(ContentOf(r))
        text == IF looksLikeNoImage(got) THEN "" ELSE got
    IN CASE r.kind = "network_error" -> Respond(500, PipelineException, "", NULL)
         [] r.kind = "http_error" -> Fetch("ocr2", Call("ocr", "openrouter"), "", NULL)
         [] text = "" -> Fetch("ocr2", Call("ocr", "openrouter"), "", NULL)
         [] OTHER ->
                Fetch("explain", Call("explain", "groq"), text, tryEvaluate_part000(JsString(text)))

\* attempt B applying the test of attempt A and trying again
part000_ocrReply2_again(r) ==
    CASE r.kind = "network_error" -> Respond(500, PipelineException, "", NULL)
      [] r.kind = "http_error" ->
            Respond(502, [error |-> "openrouter_failed", detail |-> Slice(r.text, 400)], "", NULL)
      [] looksLikeNoImage(TrimOrRaw(ContentOf(r))) ->
            Fetch("ocr2", Call("ocr", "openrouter"), "", NULL)
      [] OTHER ->
            Fetch("explain", Call("explain", "groq"), TrimOrRaw(ContentOf(r)),
                  tryEvaluate_part000(JsString(TrimOrRaw(ContentOf(r)))))

\* attempt B returned
part000_ocrReply2(r) ==
    LET text == TrimOrRaw(ContentOf(r))
    IN CASE r.kind = "network_error" -> Respond(500, PipelineException, "", NULL)
         [] r.kind = "http_error" ->
                Respond(502, [error |-> "openrouter_failed", detail |-> Slice(r.text, 400)],
                        "", NULL)
         [] OTHER ->
                Fetch("explain", Call("explain", "groq"), text, tryEvaluate_part000(JsString(text)))

part000_explainReply(text, num, r) ==
    LET explanation == TrimOrRaw(ContentOf(r))
    IN CASE r.kind = "network_error" -> Respond(500, PipelineException, text, num)
         [] r.kind = "http_error" ->
                Respond(502, [error |-> "groq_failed", detail |-> Slice(r.text, 400),
                              text |-> text, numeric |-> num], text, num)
         [] OTHER ->
                Respond(200, [text |-> IF text = "" THEN "-" ELSE text,
                              numeric |-> num,
                              explanation |-> IF explanation = "" THEN "-" ELSE explanation],
                        text, num)

(* ------- netlify/functions/pipeline.js and the two exports.handler ------ *)
(* ------- of part_000 (Groq primary, OpenRouter primary) ----------------- *)

\* a catch block answering with a status outside the documented ones
Failure_teapot(msg, text) ==
    Respond(418, [error |-> IF msg = "" THEN "Pipeline error" ELSE msg], text, NULL)

\* a handler without its catch block: the Error escapes and nothing is answered
Failure_uncaught(msg, text) ==
    [pc |-> "rejected", response |-> NoResponse, call |-> <<>>, ocrText |-> text, numeric |-> NULL]

\* catch (err): json(500, { error: err.message || "Pipeline error" })
Failure(msg, text) ==
    Respond(500, [error |-> IF msg = "" THEN "Pipeline error" ELSE msg], text, NULL)

\* an OCR or explanation helper of these files: it throws on a rejected fetch, on
\* a non-OK response and on an OK body that is not JSON; name starts the message
upstreamResult(name, r) ==
    CASE r.kind = "network_error" -> Thrown(FetchFailed)
      [] r.kind = "http_error" ->
            Thrown(name \o " failed: " \o NatToString(r.status) \o " " \o r.text)
      [] r.kind = "ok_badjson" -> Thrown(JsonSyntaxError)
      [] OTHER -> Returned(ContentOf(r))

\* the prologue found nothing to answer: the handler goes on
Proceed == [pc |-> "start", response |-> NoResponse, call |-> <<>>, ocrText |-> "", numeric |-> NULL]

\* the same prologue with the method check moved after the body checks
eventStart_bodyFirst(rq) ==
    IF rq.body.k = "malformed"
    THEN Respond(500, [error |-> JsonSyntaxError], "", NULL)
    ELSE IF rq.body.k = "null"
         THEN Respond(500, [error |-> "Cannot destructure property 'imageDataUrl' of 'JSON.parse(...)' as it is null."], "", NULL)
    ELSE IF ~Truthy(ImageOf(rq.body))
         THEN Respond(400, [error |-> "Missing imageDataUrl"], "", NULL)
    ELSE IF rq.method # "POST" THEN Respond(405, [error |-> "Method Not Allowed"], "", NULL)
    ELSE [pc |-> "start", response |-> NoResponse, call |-> <<>>, ocrText |-> "", numeric |-> NULL]

\* the handler up to its first fetch: the method check, JSON.parse(event.body || "{}"),
\* the destructuring and the test of imageDataUrl
eventStart(rq) ==
    IF rq.method # "POST" THEN Respond(405, [error |-> "Method Not Allowed"], "", NULL)
    ELSE IF rq.body.k = "malformed" THEN Failure(JsonSyntaxError, "")
    ELSE IF rq.body.k = "null"
         THEN Failure("Cannot destructure property 'imageDataUrl' of 'JSON.parse(...)' as it is null.", "")
    ELSE IF ~Truthy(ImageOf(rq.body))
         THEN Respond(400, [error |-> "Missing imageDataUrl"], "", NULL)
    ELSE Proceed

\* dataUrlToParts(imageDataUrl) and its use in runOCRWithOpenRouter: the Error
\* message thrown, "" for none
dataUrlToParts(image) ==
    IF image.t # "string" THEN "dataUrl?.startsWith is not a function"
    ELSE IF ~ImgStartsWith(image, "data:") THEN "Invalid image data URL"
    ELSE ""

netlify_start(rq) ==
    LET s0 == eventStart(rq)
    IN IF s0.pc = "done" THEN s0
       ELSE IF dataUrlToParts(ImageOf(rq.body)) # ""
            THEN Failure(dataUrlToParts(ImageOf(rq.body)), "")
       ELSE Fetch("ocr1", Call("ocr", "openrouter"), "", NULL)

\* the handler going on to the explanation call whatever the transcript holds
afterOcr_alwaysExplain(rawText) == Fetch("explain", Call("explain", "groq"), rawText, NULL)

\* the handler from the transcript to the explanation call: the early answer
\* when the transcript shows nothing math-like
afterOcr(rawText) ==
    IF rawText = "" \/ ~hasMath(rawText)
    THEN Respond(200, [text |-> rawText, explanation |-> toFriendlyStepsHtml(NoMathExplanation)],
                 rawText, NULL)
    ELSE Fetch("explain", Call("explain", "groq"), rawText, NULL)

netlify_ocrReply(r) ==
    LET t == upstreamResult("OpenRouter OCR", r)
    IN IF t.thrown THEN Failure(t.s, "") ELSE afterOcr(cleanOCR(t.s))

\* runExplainWithGroq / explainWithGroq and the end of the handler
eventExplainReply(text, r) ==
    LET t == upstreamResult("Groq explain", r)
    IN IF t.thrown THEN Failure(t.s, text)
       ELSE Respond(200, [text |-> text, explanation |-> toFriendlyStepsHtml(Trim(t.s))],
                    text, NULL)

\* part_000, Groq primary: ocrWithGroq first, ocrWithOpenRouter when it throws and
\* OPENROUTER_API_KEY is set
groqPrimary_start(rq) ==
    LET s0 == eventStart(rq)
    IN IF s0.pc = "done" THEN s0 ELSE Fetch("ocr1", Call("ocr", "groq"), "", NULL)

\* the same step falling back whether or not OPENROUTER_API_KEY is set
groqPrimary_ocrReply1_anyKey(e, r) ==
    IF ~upstreamResult("Groq OCR", r).thrown
    THEN afterOcr(cleanOCR_groqPrimary(upstreamResult("Groq OCR", r).s))
    ELSE Fetch("ocr2", Call("ocr", "openrouter"), "", NULL)

groqPrimary_ocrReply1(e, r) ==
    LET t == upstreamResult("Groq OCR", r)
    IN IF ~t.thrown THEN afterOcr(cleanOCR_groqPrimary(t.s))
       ELSE IF e.OPENROUTER_API_KEY THEN Fetch("ocr2", Call("ocr", "openrouter"), "", NULL)
       ELSE Failure(t.s, "")

groqPrimary_ocrReply2(r) ==
    LET t == upstreamResult("OpenRouter OCR", r)
    IN IF t.thrown THEN Failure(t.s, "") ELSE afterOcr(cleanOCR_groqPrimary(t.s))

\* part_000, OpenRouter primary: runOCRWithOpenRouter first, runOCRWithGroqVision
\* when it throws
openrouterPrimary_start(rq) ==
    LET s0 == eventStart(rq)
    IN IF s0.pc = "done" THEN s0 ELSE Fetch("ocr1", Call("ocr", "openrouter"), "", NULL)

openrouterPrimary_ocrReply1(r) ==
    LET t == upstreamResult("OpenRouter OCR", r)
    IN IF ~t.thrown THEN afterOcr(cleanOCR(t.s))
       ELSE Fetch("ocr2", Call("ocr", "groq"), "", NULL)

openrouterPrimary_ocrReply2(r) ==
    LET t == upstreamResult("Groq OCR", r)
    IN IF t.thrown THEN Failure(t.s, "") ELSE afterOcr(cleanOCR(t.s))

(***************************************************************************)
(* The steps of the handler that serves the request.                       *)
(***************************************************************************)
StartOf(v, rq, e) ==
    CASE v = "api" -> api_start(rq, e)
      [] v = "netlify" -> netlify_start(rq)
      [] v = "part_001" -> part001_start(rq, e)
      [] v = "part_000" -> part000_start(rq, e)
      [] v = "part_000_groq" -> groqPrimary_start(rq)
      [] v = "part_000_openrouter" -> openrouterPrimary_start(rq)

OcrReply1Of(v, e, r) ==
    CASE v = "api" -> api_ocrReply(e, r)
      [] v = "netlify" -> netlify_ocrReply(r)
      [] v = "part_001" -> part001_ocrReply1(e, r)
      [] v = "part_000" -> part000_ocrReply1(r)
      [] v = "part_000_groq" -> groqPrimary_ocrReply1(e, r)
      [] v = "part_000_openrouter" -> openrouterPrimary_ocrReply1(r)

\* only the handlers with a second OCR attempt reach pc = "ocr2"
OcrReply2Of(v, e, r) ==
    CASE v = "part_001" -> part001_ocrReply2(e, r)
      [] v = "part_000" -> part000_ocrReply2(r)
      [] v = "part_000_groq" -> groqPrimary_ocrReply2(r)
      [] v = "part_000_openrouter" -> openrouterPrimary_ocrReply2(r)

ExplainReplyOf(v, text, num, r) ==
    CASE v = "api" -> api_explainReply(text, num, r)
      [] v = "part_001" -> part001_explainReply(text, num, r)
      [] v = "part_000" -> part000_explainReply(text, num, r)
      [] OTHER -> eventExplainReply(text, r)

\* tryEvaluate as the handler v defines it
tryEvaluateOf(v, x) == IF v = "part_000" THEN tryEvaluate_part000(x) ELSE tryEvaluate(x)

(***************************************************************************)
(* The request specification: one request to one handler.                  *)
(***************************************************************************)
Envs == [OPENROUTER_API_KEY : BOOLEAN, GROQ_API_KEY : BOOLEAN]

Init ==
    /\ variant \in Variants
    /\ env \in Envs
    /\ req \in Requests(variant)
    /\ pc = "start"
    /\ calls = <<>>
    /\ replies = <<>>
    /\ ocrText = ""
    /\ numeric = NULL
    /\ response = NoResponse
    /\ expr = JsUndefined
    /\ result = NULL

\* the handler takes the step o
Apply(o) ==
    /\ pc' = o.pc
    /\ response' = o.response
    /\ calls' = calls \o o.call
    /\ ocrText' = o.ocrText
    /\ numeric' = o.numeric

\* the handler is invoked and runs to its first fetch or to its response
Start ==
    /\ pc = "start"
    /\ Apply(StartOf(variant, req, env))
    /\ UNCHANGED <<variant, env, req, replies, expr, result>>

\* the first OCR call returns
OcrReply1 ==
    /\ pc = "ocr1"
    /\ \E r \in OcrReplies :
          /\ replies' = Append(replies, r)
          /\ Apply(OcrReply1Of(variant, env, r))
    /\ UNCHANGED <<variant, env, req, expr, result>>

\* the second OCR call returns
OcrReply2 ==
    /\ pc = "ocr2"
    /\ \E r \in OcrReplies :
          /\ replies' = Append(replies, r)
          /\ Apply(OcrReply2Of(variant, env, r))
    /\ UNCHANGED <<variant, env, req, expr, result>>

\* the explanation call returns
ExplainReply ==
    /\ pc = "explain"
    /\ \E r \in ExplainReplies :
          /\ replies' = Append(replies, r)
          /\ Apply(ExplainReplyOf(variant, ocrText, numeric, r))
    /\ UNCHANGED <<variant, env, req, expr, result>>

Next == Start \/ OcrReply1 \/ OcrReply2 \/ ExplainReply

Spec == Init /\ [][Next]_vars

\* the handler moves on: from where it stands to its next await or to its end
Progress ==
    /\ pc \in {"start", "ocr1", "ocr2", "explain"}
    /\ pc' \in {"ocr1", "ocr2", "explain", "done"}
    /\ pc' # pc

\* The same under the assumption that the handler runs and that every upstream
\* call completes: a handler that has not ended eventually moves on.
SpecLive == Spec /\ WF_pc(Progress)

(***************************************************************************)
(* The evaluator specification: tryEvaluate applied to one argument.       *)
(***************************************************************************)
\* the longest enumerated argument
MaxLen == 3

EvalAlphabet == {"0", "1", "2", "+", "-", "*", "/", "(", ")", ".", " ", "a"}

RECURSIVE StringsUpTo(_)
StringsUpTo(n) ==
    IF n = 0 THEN {""}
    ELSE LET S == StringsUpTo(n - 1)
         IN S \union { s \o c : s \in S, c \in EvalAlphabet }

EvalExamples ==
    { "3*0.5+3*(-1)", "1 - -1", "1 + +1", "007+1", "08*2", "2*(1+2)", "(1+2)*3", "10/4",
      "8-4-2", "8/4/2", "2+3*4", "1/(1/0)", "1/(1/0-1/0)", "2**3", "(/./*1)**0",
      "1)+(2", "1)//", "x = 2 + 2", "abc", "two plus two", "( . )", "/(.)/", "1 2",
      "01+1", "12/8", "10-30" }

EvalInputs ==
    { JsNull, JsUndefined } \union { JsString(s) : s \in StringsUpTo(MaxLen) \union EvalExamples }

InitEval ==
    /\ variant \in {"api", "part_001", "part_000"}
    /\ expr \in EvalInputs
    /\ pc = "evaluate"
    /\ result = NULL
    /\ env = [OPENROUTER_API_KEY |-> FALSE, GROQ_API_KEY |-> FALSE]
    /\ req = [method |-> "POST", body |-> Body("absent", ImgUndefined)]
    /\ calls = <<>>
    /\ replies = <<>>
    /\ ocrText = ""
    /\ numeric = NULL
    /\ response = NoResponse

\* the call tryEvaluate(expr)
Evaluate ==
    /\ pc = "evaluate"
    /\ result' = tryEvaluateOf(variant, expr)
    /\ pc' = "evaluated"
    /\ UNCHANGED <<variant, env, req, calls, replies, ocrText, numeric, response, expr>>

NextEval == Evaluate

SpecEval == InitEval /\ [][NextEval]_vars

(***************************************************************************)
(* Both together: a request to a handler, or a call of tryEvaluate.        *)
(***************************************************************************)
InitAll == Init \/ InitEval

NextAll == Next \/ NextEval

SpecAll == InitAll /\ [][NextAll]_vars

(***************************************************************************)
(* Two requests in flight in one process, served by the same handler.  In  *)
(* this specification req, pc, calls, replies, ocrText, numeric and        *)
(* response are pairs, one component per invocation; variant and env (the  *)
(* module and process.env) are what the two invocations share.             *)
(***************************************************************************)
Invocations == {1, 2}

\* a module-level variable in place of the handler's const and let: both
\* invocations use the same one
Local_moduleLevel(i) == 1

\* text, numeric, ocrText, rawText are declared inside the handler: each
\* invocation has its own
Local(i) == i

TwoRequests ==
    { [method |-> "POST", body |-> Body("object", ImgString(PngHead, 0))],
      [method |-> "POST", body |-> Body("object", ImgString("http://example.com/a.png", 0))] }

TwoReplies == { Reply("ok", 200, "2+2"), Reply("ok", 200, ""), Reply("http_error", 500, "") }

\* the step a handler at o.pc takes when the call it awaits returns r
StepOf(v, e, o, r) ==
    CASE o.pc = "ocr1" -> OcrReply1Of(v, e, r)
      [] o.pc = "ocr2" -> OcrReply2Of(v, e, r)
      [] o.pc = "explain" -> ExplainReplyOf(v, o.ocrText, o.numeric, r)

InitTwo ==
    /\ variant \in Variants
    /\ env \in Envs
    /\ req \in [Invocations -> TwoRequests]
    /\ pc = [i \in Invocations |-> "start"]
    /\ calls = [i \in Invocations |-> <<>>]
    /\ replies = [i \in Invocations |-> <<>>]
    /\ ocrText = [i \in Invocations |-> ""]
    /\ numeric = [i \in Invocations |-> NULL]
    /\ response = [i \in Invocations |-> NoResponse]
    /\ expr = JsUndefined
    /\ result = NULL

\* invocation i takes the step o
ApplyAt(i, o) ==
    /\ pc' = [pc EXCEPT ![i] = o.pc]
    /\ response' = [response EXCEPT ![i] = o.response]
    /\ calls' = [calls EXCEPT ![i] = calls[i] \o o.call]
    /\ ocrText' = [ocrText EXCEPT ![Local(i)] = o.ocrText]
    /\ numeric' = [numeric EXCEPT ![Local(i)] = o.numeric]

\* invocation i starts and runs to its first fetch or to its response
StartTwo ==
    \E i \in Invocations :
        /\ pc[i] = "start"
        /\ ApplyAt(i, StartOf(variant, req[i], env))
        /\ UNCHANGED <<variant, env, req, replies, expr, result>>

\* the call invocation i awaits returns, and i runs on
ReplyTwo ==
    \E i \in Invocations :
        /\ pc[i] \in {"ocr1", "ocr2", "explain"}
        /\ \E r \in TwoReplies :
              /\ replies' = [replies EXCEPT ![i] = Append(replies[i], r)]
              /\ ApplyAt(i, StepOf(variant, env,
                                   [pc |-> pc[i], ocrText |-> ocrText[Local(i)],
                                    numeric |-> numeric[Local(i)]], r))
        /\ UNCHANGED <<variant, env, req, expr, result>>

NextTwo == StartTwo \/ ReplyTwo

SpecTwo == InitTwo /\ [][NextTwo]_vars

(***************************************************************************)
(* Properties of the handlers (specification Spec).                        *)
(***************************************************************************)
Done == pc = "done"

PostRequest == req.method = "POST"

Image == ImageOf(req.body)

HasError == "error" \in DOMAIN response.body

ErrorIs(tag) == HasError /\ response.body.error = tag

\* the OCR calls issued so far (they precede the explanation call)
OcrCallCount == Cardinality({ i \in 1..Len(calls) : calls[i].stage = "ocr" })

IssuedExplain == \E i \in 1..Len(calls) : calls[i].stage = "explain"

\* every OCR call issued has been answered and the last answer was an OK
\* response with string content: ocrText is the transcript of the request
TranscriptObtained ==
    /\ OcrCallCount > 0
    /\ Len(replies) >= OcrCallCount
    /\ replies[OcrCallCount].kind = "ok"

\* C1: in every handler, a POST whose imageDataUrl is not a string starting with
\* "data:image/" is answered 400, and nothing else happens for it.
C1_InvalidImageYields400 ==
    (PostRequest /\ invalidImage(Image) /\ pc # "start") => (Done /\ response.status = 400)

\* the netlify handler answers 500 to a POST whose imageDataUrl is an http URL
C1_Netlify500 ==
    /\ variant = "netlify" /\ PostRequest
    /\ req.body = Body("object", ImgString("http://example.com/a.png", 0))
    /\ Done /\ response.status = 500 /\ ErrorIs("Invalid image data URL")

\* a data:image/ string that part_001 does not reject for its size
ValidImage ==
    ~invalidImage(Image) /\ (variant = "part_001" => ImgLength(Image) <= MAX_IMAGE_LENGTH)

\* C2: in every handler, a POST with a valid payload made while OPENROUTER_API_KEY
\* is not set is answered 500 "missing_openrouter_key", and no upstream call is made.
C2_MissingKeyYields500 ==
    (PostRequest /\ ValidImage /\ ~env.OPENROUTER_API_KEY /\ pc # "start")
        => (Done /\ response.status = 500 /\ ErrorIs("missing_openrouter_key") /\ calls = <<>>)

\* the netlify handler, with no key set, calls OpenRouter and reports its refusal
C2_NetlifyCallsAnyway ==
    /\ variant = "netlify" /\ ~env.OPENROUTER_API_KEY /\ PostRequest /\ ValidImage
    /\ calls = <<Call("ocr", "openrouter")>>
    /\ Done /\ response.status = 500 /\ ErrorIs("OpenRouter OCR failed: 401 denied")

NoMathAnswer ==
    /\ Done
    /\ response.status = 200
    /\ ~HasError
    /\ response.body.explanation = "<p>" \o NoMathExplanation \o "</p>"
    /\ ~IssuedExplain

\* the handlers that answer early: netlify and the two exports.handler of part_000
EarlyAnswerVariants == {"netlify", "part_000_groq", "part_000_openrouter"}

\* C3 (as stated): in every handler, a transcript without digit or operator
\* character is answered 200 with the fixed explanation and no explanation call.
C3_NoMathInEveryVariant == (TranscriptObtained /\ ~hasMath(ocrText)) => NoMathAnswer

\* C3 (amended): in the netlify handler and the two exports.handler of part_000,
\* a transcript that is empty or holds none of 0-9 = + - x * / ( ) is answered
\* 200 with the fixed explanation as one paragraph, and no explanation call is made.
C3_NoMathEarlyAnswer ==
    (variant \in EarlyAnswerVariants /\ TranscriptObtained /\ ~hasMath(ocrText)) => NoMathAnswer

C3_Witness ==
    /\ variant = "netlify" /\ TranscriptObtained /\ ocrText = "hello" /\ NoMathAnswer

\* C6 patterns as the claim lists them
ListedPattern(text) ==
    \/ Includes(ToLowerCase(text), "provide the image")
    \/ Includes(ToLowerCase(text), "no image")
    \/ Includes(ToLowerCase(text), "cannot see")

FallbackVariants == {"part_000", "part_001"}

FirstReplyOk == Len(replies) >= 1 /\ replies[1].kind = "ok"

SecondAttemptIssued == OcrCallCount >= 2

\* C6 (as stated): in part_000's first handler and part_001, after an OK first
\* reply the second attempt is issued exactly when the reply is empty or matches
\* one of the three listed patterns.
C6_SecondAttemptIffListed ==
    (variant \in FallbackVariants /\ FirstReplyOk)
        => (SecondAttemptIssued <=> (replies[1].text = "" \/ ListedPattern(replies[1].text)))

\* C6 (amended): the second attempt is issued whenever the first reply is empty
\* or matches a listed pattern; after an OK first reply it is not issued when the
\* reply matches none of the handler's own patterns and is not empty, where
\* part_000 also has the pattern "can't see" and part_001 also takes a reply of
\* white space for empty.
C6_SecondAttempt ==
    (variant \in FallbackVariants /\ FirstReplyOk)
        => /\ (replies[1].text = "" \/ ListedPattern(replies[1].text)) => SecondAttemptIssued
           /\ (/\ ~ListedPattern(replies[1].text)
               /\ IF variant = "part_000"
                  THEN replies[1].text # "" /\ ~Includes(ToLowerCase(replies[1].text), "can't see")
                  ELSE Trim(replies[1].text) # "")
                  => ~SecondAttemptIssued

C6_Witness ==
    /\ variant = "part_000" /\ FirstReplyOk /\ replies[1].text = "There is NO IMAGE here"
    /\ pc = "ocr2" /\ SecondAttemptIssued

\* C7: a response is a 200 without an error field, or has one of the statuses
\* 400, 405, 413, 500, 502 and an error field.
C7_ResponseShape ==
    Done => \/ response.status = 200 /\ ~HasError
            \/ response.status \in {400, 405, 413, 500, 502} /\ HasError

C7_Witness ==
    /\ variant = "part_000_groq" /\ Done /\ response.status = 500 /\ HasError
    /\ Len(replies) = 1 /\ replies[1].kind = "network_error"

\* C8: in every handler, when the last upstream answer was a non-OK response and
\* the handler has answered, the answer is a 502 tagged with the failed upstream.
C8_UpstreamFailureYields502 ==
    (Done /\ Len(replies) >= 1 /\ replies[Len(replies)].kind = "http_error")
        => (response.status = 502 /\ (ErrorIs("openrouter_failed") \/ ErrorIs("groq_failed")))

\* the netlify handler answers 500 when OpenRouter answers 401
C8_Netlify500 ==
    /\ variant = "netlify" /\ Done
    /\ replies = <<Reply("http_error", 401, "denied")>>
    /\ response.status = 500

\* C9: part_001 answers a POST with a data:image/ string of more than 6,000,000
\* characters with 413 "image_too_large", whatever keys are set and without an
\* upstream call; a string of 6,000,000 characters or fewer is never answered 413.
C9_ImageTooLarge ==
    (variant = "part_001" /\ PostRequest /\ req.body.k = "object" /\ ~invalidImage(Image)
        /\ pc # "start")
        => IF ImgLength(Image) > 6000000
           THEN Done /\ response.status = 413 /\ ErrorIs("image_too_large") /\ calls = <<>>
           ELSE response.status # 413

C9_Witness ==
    /\ variant = "part_001" /\ PostRequest /\ ~invalidImage(Image)
    /\ ImgLength(Image) = 6000001
    /\ ~env.OPENROUTER_API_KEY /\ ~env.GROQ_API_KEY
    /\ Done /\ response.status = 413 /\ calls = <<>>

\* C10: a request whose method is not POST is answered 405 whatever its body and
\* the keys, and no upstream call is made for it.
C10_MethodNotAllowed ==
    (~PostRequest /\ pc # "start") => (Done /\ response.status = 405 /\ calls = <<>>)

C10_Witness ==
    /\ variant = "netlify" /\ ~PostRequest /\ req.body.k = "malformed"
    /\ ~env.OPENROUTER_API_KEY /\ Done /\ response.status = 405

(***************************************************************************)
(* Properties of tryEvaluate (specification SpecEval).                     *)
(***************************************************************************)
NoDigit(x) == x.t # "string" \/ \A i \in 1..Len(x.s) : Ch(x.s, i) \notin Digits

\* C4: tryEvaluate returns null for every input without a digit character.
C4_NoDigitGivesNull == (pc = "evaluated" /\ NoDigit(expr)) => result = NULL

C4_Witness == pc = "evaluated" /\ variant = "api" /\ expr = JsString("/./") /\ result = NULL

IsNumeral(s) == s # "" /\ \A i \in 1..Len(s) : Ch(s, i) \in Digits

\* the value of a op b for naturals a and b (b # 0 under "/")
ArithValue(op, a, b) ==
    CASE op = "+" -> Num(a + b, 1, FALSE)
      [] op = "-" -> Num(a - b, 1, FALSE)
      [] op = "*" -> Num(a * b, 1, FALSE)
      [] op = "/" -> Num(a, b, FALSE)

\* s is a op b at position i: two numerals, leading zeros allowed, around one operator
IsBinaryAt(s, i) ==
    /\ Ch(s, i) \in {"+", "-", "*", "/"}
    /\ IsNumeral(SubSeq(s, 1, i - 1))
    /\ IsNumeral(SubSeq(s, i + 1, Len(s)))
    /\ (Ch(s, i) = "/" => DigitsValue(s, i + 1, Len(s) + 1) # 0)

\* C5, for the well-formed strings a op b of two numerals: tryEvaluate returns the
\* value of the expression, the numerals read in base ten whatever their leading zeros.
C5_ValueOfWellFormed ==
    (pc = "evaluated" /\ expr.t = "string")
        => \A i \in 2..(Len(expr.s) - 1) :
              IsBinaryAt(expr.s, i)
                  => result = ArithValue(Ch(expr.s, i), DigitsValue(expr.s, 1, i),
                                         DigitsValue(expr.s, i + 1, Len(expr.s) + 1))

\* tryEvaluate("01+1") is null
C5_LeadingZeroNull ==
    pc = "evaluated" /\ variant = "part_001" /\ expr = JsString("01+1") /\ result = NULL

\* null or a finite number
NullOrFinite(v) == v = NULL \/ v.k \in {"num", "irr"}

\* C11: tryEvaluate returns null or a finite number for every input (a text that
\* does not parse, Infinity, NaN and a non-number give null), and the numeric
\* variable and the numeric field of a response are null or finite.
C11_NullOrFinite ==
    /\ pc = "evaluated" => NullOrFinite(result)
    /\ NullOrFinite(numeric)
    /\ (Done /\ "numeric" \in DOMAIN response.body) => NullOrFinite(response.body.numeric)

C11_Witness ==
    pc = "evaluated" /\ variant = "part_000" /\ expr = JsString("1/0") /\ result = NULL

ExplainCallCount == Cardinality({ i \in 1..Len(calls) : calls[i].stage = "explain" })

\* the upstream call answered by r failed: a non-OK response or a rejected fetch
Failed(r) == r.kind \in {"http_error", "network_error"}

\* the handlers whose second OCR attempt follows a failed first one
FailureFallbackVariants == {"part_000", "part_000_groq", "part_000_openrouter"}

OkResponse(r) == r.kind \in {"ok", "ok_nocontent", "ok_badjson"}

\* every OCR call issued has been answered
OcrAnswered == Len(replies) >= OcrCallCount

\* C13: the explanation call is issued only when every OCR call of the request
\* has been answered and the last of them returned an OK response; it follows
\* the OCR calls, is never issued while one is outstanding, and is not issued
\* when the last OCR attempt failed.
C13_ExplainAfterOcr ==
    /\ IssuedExplain
          => /\ OcrCallCount >= 1
             /\ OcrAnswered
             /\ OkResponse(replies[OcrCallCount])
             /\ calls[OcrCallCount + 1].stage = "explain"
    /\ pc \in {"ocr1", "ocr2"} => ~IssuedExplain
    /\ (OcrCallCount >= 1 /\ OcrAnswered /\ Failed(replies[OcrCallCount])) => ~IssuedExplain

C13_Witness ==
    /\ variant = "api" /\ pc = "explain"
    /\ replies = <<Reply("ok", 200, "2+2")>>
    /\ calls = <<Call("ocr", "openrouter"), Call("explain", "groq")>>

\* C14: if every upstream call completes, every request is eventually answered,
\* and once it is answered its response does not change and no further
\* upstream call is issued.
C14_EventuallyOneResponse ==
    /\ <>Done
    /\ [][Done => (response' = response /\ calls' = calls)]_vars

\* a body that is not JSON, answered by the netlify handler's catch
C14_Witness ==
    /\ variant = "netlify" /\ PostRequest /\ req.body.k = "malformed"
    /\ Done /\ response.status = 500 /\ ErrorIs(JsonSyntaxError) /\ calls = <<>>

\* C16: in api/pipeline.js and part_001 a valid request made with the OpenRouter
\* key set and the Groq key unset issues the OCR call and no explanation call;
\* it is answered 500 "missing_groq_key" when the OCR stage ended with an OK
\* reply, and only then: a failed OCR call is reported as openrouter_failed or
\* pipeline_exception.  The first handler of part_000 answers a valid request
\* with 500 and the tag of the first missing key before any upstream call.
C16_GroqKeyChecks ==
    /\ (variant \in {"api", "part_001"} /\ PostRequest /\ ValidImage /\ pc # "start"
          /\ env.OPENROUTER_API_KEY /\ ~env.GROQ_API_KEY)
          => /\ OcrCallCount >= 1
             /\ ~IssuedExplain
             /\ ErrorIs("missing_groq_key")
                   => Done /\ response.status = 500 /\ OkResponse(replies[OcrCallCount])
             /\ (Done /\ replies[OcrCallCount].kind = "ok") => ErrorIs("missing_groq_key")
             /\ (Done /\ Failed(replies[OcrCallCount]))
                   => ErrorIs("openrouter_failed") \/ ErrorIs("pipeline_exception")
    /\ (variant = "part_000" /\ PostRequest /\ ValidImage /\ pc # "start"
          /\ ~(env.OPENROUTER_API_KEY /\ env.GROQ_API_KEY))
          => /\ Done /\ calls = <<>> /\ response.status = 500
             /\ ErrorIs(IF env.OPENROUTER_API_KEY THEN "missing_groq_key"
                        ELSE "missing_openrouter_key")

C16_Witness ==
    /\ variant = "api" /\ env.OPENROUTER_API_KEY /\ ~env.GROQ_API_KEY
    /\ replies = <<Reply("ok", 200, "2+2")>>
    /\ calls = <<Call("ocr", "openrouter")>>
    /\ Done /\ response.status = 500 /\ ErrorIs("missing_groq_key")

ExceptionVariants == {"part_000_groq", "part_000_openrouter"}

\* the OCR helper answered by r threw: a rejected fetch, a non-OK response, or
\* an OK response whose body r.json() cannot parse
Threw(r) == r.kind \in {"network_error", "http_error", "ok_badjson"}

PrimaryName == IF variant = "part_000_groq" THEN "Groq OCR" ELSE "OpenRouter OCR"

FallbackName == IF variant = "part_000_groq" THEN "OpenRouter OCR" ELSE "Groq OCR"

\* C17: in the two exports.handler of part_000 the fallback OCR provider is
\* called only after the primary call threw, never after an OK reply (an empty
\* one included), and in the Groq-primary handler only when OPENROUTER_API_KEY
\* is set: without it the 500 response carries the primary's message.  When the
\* fallback throws too, the 500 response carries the fallback's message.
C17_FallbackOnFailure ==
    (variant \in ExceptionVariants /\ Len(replies) >= 1)
        => /\ calls[1].provider = (IF variant = "part_000_groq" THEN "groq" ELSE "openrouter")
           /\ SecondAttemptIssued
                 => /\ Threw(replies[1])
                    /\ variant = "part_000_groq" => env.OPENROUTER_API_KEY
                    /\ calls[2] = Call("ocr", IF variant = "part_000_groq" THEN "openrouter"
                                               ELSE "groq")
           /\ (Threw(replies[1]) /\ (variant = "part_000_groq" => env.OPENROUTER_API_KEY))
                 => SecondAttemptIssued
           /\ (variant = "part_000_groq" /\ ~env.OPENROUTER_API_KEY /\ Threw(replies[1]))
                 => /\ Done /\ response.status = 500
                    /\ ErrorIs(upstreamResult(PrimaryName, replies[1]).s)
           /\ (SecondAttemptIssued /\ Len(replies) >= 2 /\ Threw(replies[2]))
                 => /\ Done /\ response.status = 500
                    /\ ErrorIs(upstreamResult(FallbackName, replies[2]).s)

\* Groq answered 401, OpenRouter 500: the response carries OpenRouter's message
C17_Witness ==
    /\ variant = "part_000_groq" /\ env.OPENROUTER_API_KEY
    /\ replies = <<Reply("http_error", 401, "denied"), Reply("http_error", 500, "")>>
    /\ calls = <<Call("ocr", "groq"), Call("ocr", "openrouter")>>
    /\ Done /\ response.status = 500 /\ ErrorIs("OpenRouter OCR failed: 500 ")

\* C18: a 200 response is given only when the last OCR call issued returned an
\* OK response and either the explanation call returned an OK response or none
\* was issued because the transcript showed no math; a request whose last
\* upstream call failed is not answered 200.
C18_SuccessOnlyAfterOk ==
    /\ (Done /\ response.status = 200)
          => /\ OcrCallCount >= 1
             /\ Len(replies) = Len(calls)
             /\ OkResponse(replies[OcrCallCount])
             /\ IF IssuedExplain
                THEN OkResponse(replies[Len(replies)])
                ELSE /\ variant \in EarlyAnswerVariants
                     /\ ~hasMath(ocrText)
                     /\ response.body.explanation = "<p>" \o NoMathExplanation \o "</p>"
    /\ (Done /\ Len(replies) >= 1 /\ Failed(replies[Len(replies)])) => response.status # 200

\* attempt A failed, attempt B and the explanation call returned OK
C18_Witness ==
    /\ variant = "part_000"
    /\ replies = <<Reply("http_error", 500, ""), Reply("ok", 200, "2+2"),
                   Reply("ok", 200, "4")>>
    /\ Done /\ response.status = 200 /\ response.body.text = "2+2"

(***************************************************************************)
(* Properties of two concurrent requests (specification SpecTwo).          *)
(***************************************************************************)
\* the handler v serving rq alone, with keys e, after the upstream replies rs
RECURSIVE RunAlone(_, _, _, _)
RunAlone(v, e, rq, rs) ==
    IF rs = <<>> THEN StartOf(v, rq, e)
    ELSE StepOf(v, e, RunAlone(v, e, rq, SubSeq(rs, 1, Len(rs) - 1)), rs[Len(rs)])

\* C15: in every interleaving of two requests to one handler, each request
\* stands where it would stand alone with its body, the keys and its upstream
\* replies, and its response is the one it would receive alone.
C15_Isolation ==
    \A i \in Invocations :
        pc[i] # "start"
            => /\ pc[i] = RunAlone(variant, env, req[i], replies[i]).pc
               /\ response[i] = RunAlone(variant, env, req[i], replies[i]).response

\* two valid requests to api/pipeline.js, their calls interleaved, answered
\* with their own transcripts
C15_Witness ==
    /\ variant = "api"
    /\ pc = [i \in Invocations |-> "done"]
    /\ replies[1] = <<Reply("ok", 200, "2+2"), Reply("ok", 200, "")>>
    /\ replies[2] = <<Reply("ok", 200, ""), Reply("ok", 200, "2+2")>>
    /\ response[1].status = 200 /\ response[1].body.text = "2+2"
    /\ response[2].status = 200 /\ response[2].body.text = ""

====
